---- MODULE Spec2Model ----
(***************************************************************************)
(* Model of book/tutorials/DataProducts/DataProducts.ipynb: the filename   *)
(* regular expressions, the two download loops, the region-of-interest     *)
(* mask, the quality mask and the fill-value substitution.                 *)
(*                                                                         *)
(* Strings are sequences of one-character strings, so that re.search is    *)
(* computed character by character.                                        *)
(***************************************************************************)
EXTENDS Integers, Sequences, FiniteSets, TLC

VARIABLES
    mode,       \* which part of the notebook this behaviour exercises
    fname,      \* parse: the filename handed to the regular expressions
    m11,        \* parse: result of ATL11_re.search(fname), or Unset
    m06,        \* parse: result of ATL06_re.search(fname), or Unset
    cell,       \* download loop: "ATL11" (cell c1f43ac0) or "ATL06" (cell 292dbc8e)
    avail,      \* download loop: region.granules.avail, the producer_granule_id's
    idx,        \* download loop: position of the for loop in avail
    pc,         \* download loop: "loop", "done" (loop ran off the end), "raised"
    disk,       \* names of the regular files under /tmp/
    issued,     \* names for which wget was run in this run of the cell, in order
    skipped,    \* positions of avail this run left because the file existed
    run,        \* how many times the cell has been started
    runOk,      \* every wget of this run so far left its file under /tmp/
    prevOk,     \* every wget of the previous run of the cell did
    diskAtRun,  \* disk as it was when the current run of the cell started
    disk0,      \* disk as it was before the cell ran for the first time
    flist,      \* subregion filter: the list handed to the first pass
    fin,        \* subregion filter: the list the current pass runs over
    fcode,      \* subregion filter: the target subregion code
    fpos,       \* subregion filter: position of the loop in flist
    fkept,      \* subregion filter: names kept so far
    fpass,      \* subregion filter: 1 = filtering the input, 2 = filtering the result
    fkept1,     \* subregion filter: result of the first pass
    fstat,      \* subregion filter: "loop", "done", "raised"
    XR, YR,     \* region of interest
    x, y,       \* projected coordinates of the record
    quality,    \* atl06_quality_summary of the record
    ind,        \* the mask D6['index'] / ind, or Unset
    good,       \* the mask good, or Unset
    h,          \* heights of the record
    orig,       \* fill value: the array as read from the file
    fill,       \* fill value: attrs['_FillValue']
    temp,       \* fill value: the array temp
    napplied,   \* fill value: how many times the substitution ran on temp
    pending,    \* loader: the paths of the glob the for loop has not reached yet
    lpc,        \* loader: "idle", "load", "done", or the exception that ended it
    lat, lon,   \* loader: the names lat and lon of the session, or Unset
    table,      \* loader: file_xyth (ATL11) or cycle_D6 (ATL06)
    order,      \* loader: the paths the for loop has reached, in order
    seen,       \* loader: for each path reached, what the file held
    look        \* the lookup of the record to plot: "none", "ok", "KeyError"

vars == <<mode, fname, m11, m06, cell, avail, idx, pc, disk, issued, skipped,
          run, runOk, prevOk, diskAtRun, disk0, flist, fin, fcode, fpos, fkept, fpass,
          fkept1, fstat, XR, YR, x, y, quality, ind, good, h, orig, fill, temp,
          napplied, pending, lpc, lat, lon, table, order, seen, look>>

parseVars  == <<fname, m11, m06>>
loopVars   == <<cell, avail, idx, pc, disk, issued, skipped, run, runOk, prevOk,
                diskAtRun, disk0>>
filterVars == <<flist, fin, fcode, fpos, fkept, fpass, fkept1, fstat>>
maskVars   == <<XR, YR, x, y, quality, ind, good, h>>
fillVars   == <<orig, fill, temp, napplied>>
loadVars   == <<pending, lpc, lat, lon, table, order, seen, look>>

\* A name that has not been assigned yet is <<>>; once assigned the value v it
\* is <<v>>.
Unset == <<>>

Got(v) == <<v>>

Val(w) == w[1]

-----------------------------------------------------------------------------
(* Characters and the regular-expression engine (Python's re, restricted   *)
(* to the constructs the two patterns use: literals, \d, \d+ and groups).  *)

DigitChars == {"0", "1", "2", "3", "4", "5", "6", "7", "8", "9"}

\* [0-9a-f] written for \d
IsDigit_hex(c) == c \in DigitChars \cup {"a", "b", "c", "d", "e", "f"}

IsDigit(c) == c \in DigitChars

\* re.search(...) returning None
None == [ok |-> FALSE, caps |-> <<>>]

RECURSIVE MatchFrom(_, _, _, _, _, _)
RECURSIVE PlusTry(_, _, _, _, _, _, _)

\* Try \d+ with k digits, longest first (greedy, backtracking to fewer).
PlusTry(pat, p, s, i, caps, open, k) ==
    IF k < 1 THEN None
    ELSE LET r == MatchFrom(pat, p + 1, s, i + k, caps, open)
         IN  IF r.ok THEN r ELSE PlusTry(pat, p, s, i, caps, open, k - 1)

RECURSIVE DigitRun(_, _)
\* number of consecutive digits of s starting at position i
DigitRun(s, i) ==
    IF i <= Len(s) /\ IsDigit(s[i]) THEN 1 + DigitRun(s, i + 1) ELSE 0

\* Match pat[p..] against s at position i; caps are the groups closed so
\* far, open is where the currently open group started.
MatchFrom(pat, p, s, i, caps, open) ==
    IF p > Len(pat) THEN [ok |-> TRUE, caps |-> caps]
    ELSE LET tok == pat[p] IN
         CASE tok = "("     -> MatchFrom(pat, p + 1, s, i, caps, i)
           [] tok = ")"     -> MatchFrom(pat, p + 1, s, i,
                                         Append(caps, SubSeq(s, open, i - 1)), 0)
           [] tok = "\\d"   -> IF i <= Len(s) /\ IsDigit(s[i])
                               THEN MatchFrom(pat, p + 1, s, i + 1, caps, open)
                               ELSE None
           [] tok = "\\d+"  -> PlusTry(pat, p, s, i, caps, open, DigitRun(s, i))
           [] OTHER         -> IF i <= Len(s) /\ s[i] = tok
                               THEN MatchFrom(pat, p + 1, s, i + 1, caps, open)
                               ELSE None

RECURSIVE SearchFrom(_, _, _)
\* pattern.search(s): the match at the leftmost position that has one
SearchFrom(pat, s, i) ==
    IF i > Len(s) + 1 THEN None
    ELSE LET r == MatchFrom(pat, 1, s, i, <<>>, 0)
         IN  IF r.ok THEN r ELSE SearchFrom(pat, s, i + 1)

Search(pat, s) == SearchFrom(pat, s, 1)

\* the boundary between the two groups one digit early: 'ATL11_(\d\d\d)(\d\d\d)_'
ATL11_re_shifted == <<"A", "T", "L", "1", "1", "_",
                      "(", "\\d", "\\d", "\\d", ")", "(", "\\d", "\\d", "\\d", ")", "_">>

\* ATL11_re=re.compile('ATL11_(\d\d\d\d)(\d\d)_')
ATL11_re == <<"A", "T", "L", "1", "1", "_",
              "(", "\\d", "\\d", "\\d", "\\d", ")", "(", "\\d", "\\d", ")", "_">>

\* ATL06_re=re.compile('ATL06_\d+_(\d\d\d\d)(\d\d)(\d\d)_')
\* the cycle captured before the track
ATL06_re_cycleFirst == <<"A", "T", "L", "0", "6", "_", "\\d+", "_",
              "(", "\\d", "\\d", ")", "(", "\\d", "\\d", "\\d", "\\d", ")",
              "(", "\\d", "\\d", ")", "_">>

ATL06_re == <<"A", "T", "L", "0", "6", "_", "\\d+", "_",
              "(", "\\d", "\\d", "\\d", "\\d", ")", "(", "\\d", "\\d", ")",
              "(", "\\d", "\\d", ")", "_">>

\* m.group(k); None has no attribute 'group'
AttributeError == <<"AttributeError">>

Group(m, k) == IF m.ok THEN m.caps[k] ELSE AttributeError

-----------------------------------------------------------------------------
(* Filenames.  A filename is built from its parts, and the parts are kept  *)
(* next to it, so that what a search returns can be compared with what was *)
(* put into the name.                                                      *)

P11 == <<"A", "T", "L", "1", "1", "_">>
P06 == <<"A", "T", "L", "0", "6", "_">>
Us  == <<"_">>
Ext == <<".", "h", "5">>

Tracks     == {<<"0", "5", "4", "8">>, <<"1", "3", "3", "6">>}
Subregions == {<<"0", "3">>, <<"0", "4">>}
Cycles     == {<<"0", "3">>, <<"1", "1">>}
Releases   == {<<"0", "0", "4">>, <<"0", "0", "5">>}
Versions   == {<<"0", "1">>}
Timestamps == {<<"2", "0", "1", "9", "1", "1", "0", "1", "1", "8", "5", "1", "1", "5">>,
               <<"2", "0", "1", "9", "0", "8", "0", "2", "2", "3", "1", "1", "2", "1">>,
               <<"7">>}

\* ATL11_ttttrr_c0c1_RRR_VV.h5
ATL11Name(t, r, c0, c1, R, V) ==
    P11 \o t \o r \o Us \o c0 \o c1 \o Us \o R \o Us \o V \o Ext

\* ATL06_<timestamp>_ttttccrr_RRR_VV.h5
ATL06Name(ts, t, c, r, R, V) ==
    P06 \o ts \o Us \o t \o c \o r \o Us \o R \o Us \o V \o Ext

\* text put before, after, or in place of the tail of a name
Before == {<<"/", "t", "m", "p", "/">>, <<"x">>, <<"0", "_">>}
After  == {<<>>, <<"x">>, <<".", "b", "a", "k">>}

\* Names of the ATL11 pattern in full.
Full11 ==
    { [name |-> ATL11Name(t, r, c0, c1, R, V), kind |-> "full11",
       exp11 |-> <<t, r>>, exp06 |-> <<>>, rest |-> <<c0, c1, R, V>>] :
      t \in Tracks, r \in Subregions, c0 \in Cycles, c1 \in Cycles,
      R \in Releases, V \in Versions }

\* Names of the ATL06 pattern in full.
Full06 ==
    { [name |-> ATL06Name(ts, t, c, r, R, V), kind |-> "full06",
       exp11 |-> <<>>, exp06 |-> <<t, c, r>>, rest |-> <<ts, R, V>>] :
      ts \in Timestamps, t \in Tracks, c \in Cycles, r \in Subregions,
      R \in {<<"0", "0", "5">>}, V \in Versions }

\* Names that only begin like a product name.
HeadOnly ==
    { [name |-> P11 \o t \o r \o Us \o a, kind |-> "head11",
       exp11 |-> <<t, r>>, exp06 |-> <<>>, rest |-> <<>>] :
      t \in Tracks, r \in Subregions, a \in After }
    \cup
    { [name |-> P06 \o ts \o Us \o t \o c \o r \o Us \o a, kind |-> "head06",
       exp11 |-> <<>>, exp06 |-> <<t, c, r>>, rest |-> <<>>] :
      ts \in Timestamps, t \in Tracks, c \in {<<"0", "5">>}, r \in Subregions,
      a \in After }

\* Names with a product name somewhere inside.
Embedded ==
    { [name |-> b \o f.name \o a, kind |-> "mid11",
       exp11 |-> f.exp11, exp06 |-> <<>>, rest |-> <<>>] :
      b \in Before, a \in After,
      f \in {g \in Full11 : g.rest = <<<<"0", "3">>, <<"1", "1">>, <<"0", "0", "4">>, <<"0", "1">>>>} }
    \cup
    { [name |-> b \o f.name \o a, kind |-> "mid06",
       exp11 |-> <<>>, exp06 |-> f.exp06, rest |-> <<>>] :
      b \in Before, a \in After,
      f \in {g \in Full06 : g.rest[1] = <<"7">> /\ g.exp06[2] = <<"0", "3">>} }

\* Names neither pattern has a match in.
Junk ==
    { [name |-> n, kind |-> "junk", exp11 |-> <<>>, exp06 |-> <<>>, rest |-> <<>>] :
      n \in { <<>>,
              <<"R", "E", "A", "D", "M", "E">>,
              P11,
              P06,
              P11 \o <<"0", "5", "4", "8">> \o Us \o <<"0", "3", "1", "1">> \o Us,
              P11 \o <<"0", "5", "4", "8", "0">> \o Us,
              P11 \o <<"0", "5", "4", "8", "0", "3", "1">> \o Us,
              P11 \o <<"0", "5", "4", "8", "0", "a">> \o Us,
              P11 \o <<"0", "5", "4", "8", "0", "3">>,
              <<"a", "t", "l", "1", "1", "_", "0", "5", "4", "8", "0", "3", "_">>,
              <<"A", "T", "L", "1", "1", "0", "5", "4", "8", "0", "3", "_">>,
              <<"A", "T", "L", "1", "0", "_", "0", "5", "4", "8", "0", "3", "_">>,
              P06 \o Us \o <<"0", "5", "4", "8", "0", "5", "0", "3">> \o Us,
              P06 \o <<"7">> \o Us \o <<"0", "5", "4", "8", "0", "5", "0">> \o Us,
              P06 \o <<"7">> \o Us \o <<"0", "5", "4", "8", "0", "5", "0", "3", "1">> \o Us,
              P06 \o <<"7", "x">> \o Us \o <<"0", "5", "4", "8", "0", "5", "0", "3">> \o Us,
              P06 \o <<"0", "5", "4", "8", "0", "5", "0", "3">> \o Us,
              P06 \o <<"7">> \o Us \o <<"0", "5", "4", "8", "0", "5", "0", "3">>,
              <<"A", "T", "L", "0", "3", "_", "7", "_", "0", "5", "4", "8", "0", "5", "0", "3", "_">> } }

ParseInputs == Full11 \cup Full06 \cup HeadOnly \cup Embedded \cup Junk

\* The example of the notebook's text: ATL11_054803_0311_004_01.h5
Example11 ==
    ATL11Name(<<"0", "5", "4", "8">>, <<"0", "3">>, <<"0", "3">>, <<"1", "1">>,
              <<"0", "0", "4">>, <<"0", "1">>)

\* ATL06_20191101185115_05480503_005_01.h5
Example06 ==
    ATL06Name(<<"2", "0", "1", "9", "1", "1", "0", "1", "1", "8", "5", "1", "1", "5">>,
              <<"0", "5", "4", "8">>, <<"0", "5">>, <<"0", "3">>,
              <<"0", "0", "5">>, <<"0", "1">>)

-----------------------------------------------------------------------------
(* Values every part of the notebook that a behaviour does not exercise    *)
(* keeps.                                                                  *)

IdleParse  == fname = <<>> /\ m11 = Unset /\ m06 = Unset
IdleLoop   == /\ cell = "none" /\ avail = <<>> /\ idx = 0 /\ pc = "idle"
              /\ disk = {} /\ issued = <<>> /\ skipped = {} /\ run = 0
              /\ runOk = TRUE /\ prevOk = TRUE /\ diskAtRun = {} /\ disk0 = {}
IdleFilter == /\ flist = <<>> /\ fin = <<>> /\ fcode = <<>> /\ fpos = 0
              /\ fkept = <<>> /\ fpass = 0 /\ fkept1 = <<>> /\ fstat = "idle"
IdleMask   == /\ XR = <<>> /\ YR = <<>> /\ x = <<>> /\ y = <<>> /\ quality = <<>>
              /\ ind = Unset /\ good = Unset /\ h = <<>>
IdleFill   == orig = <<>> /\ fill = 0 /\ temp = <<>> /\ napplied = 0
IdleLoad   == /\ pending = {} /\ lpc = "idle" /\ lat = Unset /\ lon = Unset
              /\ table = <<>> /\ order = <<>> /\ seen = <<>> /\ look = "none"

-----------------------------------------------------------------------------
(* Parsing one filename with each regular expression.                      *)

InitParse ==
    /\ mode = "parse"
    /\ fname \in ParseInputs
    /\ m11 = Unset /\ m06 = Unset
    /\ IdleLoop /\ IdleFilter /\ IdleMask /\ IdleFill /\ IdleLoad

\* ATL11_re.search(this_name)
Search11 ==
    /\ mode = "parse" /\ m11 = Unset
    /\ m11' = Got(Search(ATL11_re, fname.name))
    /\ UNCHANGED <<mode, fname, m06, loopVars, filterVars, maskVars, fillVars, loadVars>>

\* ATL06_re.search(this_name)
Search06 ==
    /\ mode = "parse" /\ m06 = Unset
    /\ m06' = Got(Search(ATL06_re, fname.name))
    /\ UNCHANGED <<mode, fname, m11, loopVars, filterVars, maskVars, fillVars, loadVars>>

NextParse == Search11 \/ Search06

SpecParse == InitParse /\ [][NextParse]_vars

\* C1 (as amended): for every filename of the pattern ATL11_ttttrr_c0c1_RRR_VV.h5,
\* ATL11_re.search succeeds and its two groups are exactly the embedded track
\* (group 1) and subregion (group 2); the cycles, the release and the version
\* are not extracted.  ATL11_054803_0311_004_01.h5 gives 0548 and 03.
C1_TrackAndSubregion ==
    (mode = "parse" /\ fname.kind = "full11" /\ m11 # Unset) =>
        /\ Val(m11).ok
        /\ Val(m11).caps = fname.exp11
        /\ Group(Val(m11), 1) = fname.exp11[1]
        /\ Group(Val(m11), 2) = fname.exp11[2]
        /\ fname.name = Example11 =>
               Val(m11).caps = << <<"0", "5", "4", "8">>, <<"0", "3">> >>

C1_Witness ==
    /\ mode = "parse" /\ fname.name = Example11 /\ m11 # Unset
    /\ Val(m11).caps = << <<"0", "5", "4", "8">>, <<"0", "3">> >>

\* C1 as stated: parsing a name of the ATL11 pattern returns the track, the
\* subregion, the cycle range, the release and the version.
C1_AllFields ==
    (mode = "parse" /\ fname.kind = "full11" /\ m11 # Unset) =>
        /\ Val(m11).ok
        /\ Val(m11).caps \in
              { fname.exp11 \o fname.rest,
                fname.exp11 \o << <<fname.rest[1], fname.rest[2]>>,
                                  fname.rest[3], fname.rest[4] >> }

\* C2 (as amended): a filename that contains no text matching the pattern of
\* ATL11_re (ATL06_re) makes the search return None, and asking None for a
\* group fails; whenever the search succeeds every group holds the digits of
\* the name, never a part of them or a default.  A name that only begins like
\* a product name, or has one inside, is parsed like a full one.
C2_NoMatchFails ==
    mode = "parse" =>
        /\ m11 # Unset =>
              IF fname.exp11 = <<>>
              THEN Val(m11) = None /\ Group(Val(m11), 2) = AttributeError
              ELSE Val(m11).ok /\ Val(m11).caps = fname.exp11
        /\ m06 # Unset =>
              IF fname.exp06 = <<>>
              THEN Val(m06) = None /\ Group(Val(m06), 3) = AttributeError
              ELSE Val(m06).ok /\ Val(m06).caps = fname.exp06

C2_Witness ==
    /\ mode = "parse" /\ fname.kind = "junk"
    /\ fname.name = P11 \o <<"0", "5", "4", "8", "0", "a">> \o Us
    /\ m11 = Got(None) /\ m06 = Got(None)

\* C2 as stated: every filename that is not of a product pattern in full,
\* also one that begins like one or has one inside, fails to parse.
C2_OnlyFullNamesParse ==
    mode = "parse" =>
        /\ (m11 # Unset /\ fname.kind # "full11") => Val(m11) = None
        /\ (m06 # Unset /\ fname.kind # "full06") => Val(m06) = None

-----------------------------------------------------------------------------
(* The download loops: cell c1f43ac0 (ATL11) and cell 292dbc8e (ATL06).    *)

MaxList == 3
MaxRuns == 2

SeqsUpTo(S, n) == UNION {[1..k -> S] : k \in 0..n}

Readme == <<"R", "E", "A", "D", "M", "E">>

G11_0548_03 == Example11
G11_0548_04 ==
    ATL11Name(<<"0", "5", "4", "8">>, <<"0", "4">>, <<"0", "3">>, <<"1", "1">>,
              <<"0", "0", "4">>, <<"0", "1">>)
G11_1336_03 ==
    ATL11Name(<<"1", "3", "3", "6">>, <<"0", "3">>, <<"0", "3">>, <<"1", "1">>,
              <<"0", "0", "4">>, <<"0", "1">>)

G06_05_03 == Example06
\* ATL06_20190802231121_05480403_005_01.h5
G06_04_03 ==
    ATL06Name(<<"2", "0", "1", "9", "0", "8", "0", "2", "2", "3", "1", "1", "2", "1">>,
              <<"0", "5", "4", "8">>, <<"0", "4">>, <<"0", "3">>,
              <<"0", "0", "5">>, <<"0", "1">>)
G06_05_04 ==
    ATL06Name(<<"2", "0", "1", "9", "1", "1", "0", "1", "1", "8", "5", "1", "1", "5">>,
              <<"0", "5", "4", "8">>, <<"0", "5">>, <<"0", "4">>,
              <<"0", "0", "5">>, <<"0", "1">>)

\* the producer_granule_id's a catalog answer is drawn from
Catalog(c) ==
    IF c = "ATL11" THEN {G11_0548_03, G11_0548_04, G11_1336_03, Readme}
    ELSE {G06_05_03, G06_04_03, G06_05_04, Readme}

\* the region code that was put into a catalog name ("" when it has none)
RegionOf(n) ==
    CASE n \in {G11_0548_03, G11_1336_03, G06_05_03, G06_04_03} -> "03"
      [] n \in {G11_0548_04, G06_05_04}                         -> "04"
      [] OTHER                                                  -> ""

\* the test left out
IsFile_never(d, n) == FALSE

\* os.path.isfile('/tmp/'+this_name)
IsFile(d, n) == n \in d

\* group 1 asked for instead of group 2
ATL11_Subregion_group1(n) == Group(Search(ATL11_re, n), 1)

\* ATL11_re.search(this_name).group(2)
ATL11_Subregion(n) == Group(Search(ATL11_re, n), 2)

\* ATL06_re.search(this_name).group(3)
ATL06_Region(n) == Group(Search(ATL06_re, n), 3)

InitLoop ==
    /\ mode = "loop"
    /\ cell \in {"ATL11", "ATL06"}
    /\ avail \in SeqsUpTo(Catalog(cell), MaxList)
    /\ disk \in SUBSET Catalog(cell)
    /\ idx = 1 /\ pc = "loop" /\ issued = <<>> /\ skipped = {}
    /\ run = 1 /\ runOk = TRUE /\ prevOk = TRUE
    /\ diskAtRun = disk /\ disk0 = disk
    /\ IdleParse /\ IdleFilter /\ IdleMask /\ IdleFill /\ IdleLoad

\* `continue`
Continue ==
    /\ idx' = idx + 1
    /\ UNCHANGED <<pc, disk, issued, runOk>>

\* print(this_name); ! wget <href> -q; ! mv <name> /tmp/
\* ok: whether the two shell commands left the file under /tmp/ (a failing
\* shell command does not raise).
Download(this_name, ok) ==
    /\ issued' = Append(issued, this_name)
    /\ disk' = IF ok THEN disk \cup {this_name} ELSE disk
    /\ runOk' = (runOk /\ ok)
    /\ idx' = idx + 1
    /\ UNCHANGED pc

\* An exception ends the cell.
Raise ==
    /\ pc' = "raised"
    /\ UNCHANGED <<idx, disk, issued, runOk>>

\* one pass of the body of `for granule in region_a.granules.avail:`
ATL11_Iteration ==
    /\ mode \in {"loop", "pipe"} /\ cell = "ATL11" /\ pc = "loop" /\ idx <= Len(avail)
    /\ LET this_name == avail[idx]
           subregion == ATL11_Subregion(this_name)
       IN  IF IsFile(disk, this_name)
           THEN Continue /\ skipped' = skipped \cup {idx}
           ELSE /\ skipped' = skipped
                /\ IF subregion = AttributeError THEN Raise
                   ELSE IF ~ (subregion = <<"0", "3">>) THEN Continue
                   ELSE \E ok \in BOOLEAN : Download(this_name, ok)
    /\ UNCHANGED <<mode, cell, avail, run, prevOk, diskAtRun, disk0,
                   parseVars, filterVars, maskVars, fillVars, loadVars>>

\* one pass of the body of `for granule in region_b.granules.avail:`
ATL06_Iteration ==
    /\ mode \in {"loop", "pipe"} /\ cell = "ATL06" /\ pc = "loop" /\ idx <= Len(avail)
    /\ LET this_name == avail[idx]
           region == ATL06_Region(this_name)
       IN  IF region = AttributeError
           THEN Raise /\ skipped' = skipped
           ELSE IF ~ (region = <<"0", "3">>)
           THEN Continue /\ skipped' = skipped
           ELSE IF IsFile(disk, this_name)
           THEN Continue /\ skipped' = skipped \cup {idx}
           ELSE /\ skipped' = skipped
                /\ \E ok \in BOOLEAN : Download(this_name, ok)
    /\ UNCHANGED <<mode, cell, avail, run, prevOk, diskAtRun, disk0,
                   parseVars, filterVars, maskVars, fillVars, loadVars>>

\* the for loop has no granule left
LoopEnd ==
    /\ mode \in {"loop", "pipe"} /\ pc = "loop" /\ idx > Len(avail)
    /\ pc' = "done"
    /\ UNCHANGED <<mode, cell, avail, idx, disk, issued, skipped, run, runOk,
                   prevOk, diskAtRun, disk0,
                   parseVars, filterVars, maskVars, fillVars, loadVars>>

\* the cell is run again
Rerun ==
    /\ mode = "loop" /\ pc \in {"done", "raised"} /\ run < MaxRuns
    /\ run' = run + 1
    /\ idx' = 1 /\ pc' = "loop" /\ issued' = <<>> /\ skipped' = {}
    /\ prevOk' = runOk /\ runOk' = TRUE
    /\ diskAtRun' = disk
    /\ UNCHANGED <<mode, cell, avail, disk, disk0,
                   parseVars, filterVars, maskVars, fillVars, loadVars>>

NextLoop == ATL11_Iteration \/ ATL06_Iteration \/ LoopEnd \/ Rerun

SpecLoop == InitLoop /\ [][NextLoop]_vars

RECURSIVE Picked(_)
\* of the first n granules of avail, those of region 03 that the loop did not
\* leave because the file existed, in the order of avail
Picked(n) ==
    IF n = 0 THEN <<>>
    ELSE IF n \notin skipped /\ RegionOf(avail[n]) = "03"
         THEN Append(Picked(n - 1), avail[n])
         ELSE Picked(n - 1)

BothCodes ==
    /\ \E k \in DOMAIN avail : RegionOf(avail[k]) = "03"
    /\ \E k \in DOMAIN avail : RegionOf(avail[k]) = "04"

IsRegion03(n) == RegionOf(n) = "03"

\* C3 as stated: a granule whose name does not match the pattern is skipped
\* and every later granule is processed; the loop never stops before the end
\* of the list.
C3_MismatchIsSkipped ==
    mode = "loop" => (pc # "raised" /\ (pc = "done" => idx = Len(avail) + 1))

\* C4 (as amended): in each download loop the granules downloaded are, in
\* their original relative order, exactly the granules the loop has reached
\* whose subregion is 03 and whose file was not under /tmp/ when they were
\* reached; no granule of subregion 04 is ever downloaded, and for a catalog
\* with both codes the result is a strict sub-list.
C4_DownloadsAreRegion03 ==
    mode = "loop" =>
        /\ issued = Picked(idx - 1)
        /\ \A k \in DOMAIN issued : RegionOf(issued[k]) = "03"
        /\ BothCodes => Len(issued) < Len(avail)

C4_Witness ==
    /\ mode = "loop" /\ pc = "done" /\ run = 1 /\ BothCodes
    /\ Len(issued) = 2 /\ issued[1] # issued[2] /\ Len(avail) = 3
    /\ RegionOf(avail[2]) = "04"

\* C4 as stated: the granules the loop selects are exactly those of
\* subregion 03, in their original order.
C4_ExactlyRegion03 ==
    (mode = "loop" /\ run = 1 /\ pc = "done") =>
        issued = SelectSeq(avail, IsRegion03)

\* C6: no wget is run for a name that is under /tmp/, and a run of the cell
\* that follows a run in which every download succeeded runs no wget and
\* leaves /tmp/ as it was.
C6_NoRedownload ==
    [][ mode = "loop" =>
          /\ Len(issued') > Len(issued) => issued'[Len(issued')] \notin disk
          /\ (run' >= 2 /\ prevOk') => (issued' = <<>> /\ disk' = diskAtRun')
      ]_vars

C6_Witness ==
    /\ mode = "loop" /\ run = 2 /\ prevOk /\ pc = "done"
    /\ disk0 = {} /\ Cardinality(disk) = 2 /\ Len(avail) = 3
    /\ issued = <<>> /\ disk = diskAtRun

-----------------------------------------------------------------------------
(* The subregion test of the download loop, lines 399-401, run as a filter *)
(* over a list of names, and run again over the names it kept.             *)

MaxPasses == 2

\* the loop starts at the second granule
FirstGranule_second == 1 + 1

\* `for granule in ...:` starts at the first granule
FirstGranule == 1

InitFilter ==
    /\ mode = "filter"
    /\ flist \in SeqsUpTo(Catalog("ATL11"), MaxList)
    /\ fin = flist
    /\ fcode \in Subregions
    /\ fpos = FirstGranule /\ fkept = <<>> /\ fpass = 1 /\ fkept1 = <<>>
    /\ fstat = "loop"
    /\ IdleParse /\ IdleLoop /\ IdleMask /\ IdleFill /\ IdleLoad

\* subregion = ATL11_re.search(this_name).group(2)
\* if not subregion == code: continue
FilterIteration ==
    /\ mode = "filter" /\ fstat = "loop" /\ fpos <= Len(fin)
    /\ LET this_name == fin[fpos]
           subregion == ATL11_Subregion(this_name)
       IN  IF subregion = AttributeError
           THEN fstat' = "raised" /\ UNCHANGED <<fpos, fkept>>
           ELSE /\ fstat' = fstat
                /\ fpos' = fpos + 1
                /\ fkept' = IF ~ (subregion = fcode) THEN fkept
                            ELSE Append(fkept, this_name)
    /\ UNCHANGED <<mode, flist, fin, fcode, fpass, fkept1,
                   parseVars, loopVars, maskVars, fillVars, loadVars>>

\* the for loop has no name left
FilterEnd ==
    /\ mode = "filter" /\ fstat = "loop" /\ fpos > Len(fin)
    /\ fstat' = "done"
    /\ UNCHANGED <<mode, flist, fin, fcode, fpos, fkept, fpass, fkept1,
                   parseVars, loopVars, maskVars, fillVars, loadVars>>

\* the names kept are filtered again, by the same code
FilterAgain ==
    /\ mode = "filter" /\ fstat = "done" /\ fpass < MaxPasses
    /\ fin' = fkept /\ fkept1' = fkept
    /\ fkept' = <<>> /\ fpos' = FirstGranule /\ fpass' = fpass + 1
    /\ fstat' = "loop"
    /\ UNCHANGED <<mode, flist, fcode, parseVars, loopVars, maskVars, fillVars, loadVars>>

NextFilter == FilterIteration \/ FilterEnd \/ FilterAgain

SpecFilter == InitFilter /\ [][NextFilter]_vars

-----------------------------------------------------------------------------
(* The region-of-interest mask (cells 1e4f55be and 77e6bef5) and the       *)
(* quality mask (cell 35d7eaed).  Numbers are small integers; NaN is the   *)
(* one value that compares false with everything.                          *)

MaxPts == 1

\* np.NaN
NaN == -1

Coords    == 0..2
CoordVals == Coords \cup {NaN}

\* a <= b written for a < b
Lt_orEqual(a, b) == a # NaN /\ b # NaN /\ a <= b

\* a < b on floats
Lt(a, b) == a # NaN /\ b # NaN /\ a < b

\* a > b on floats
Gt(a, b) == a # NaN /\ b # NaN /\ a > b

\* a == b on floats
Eq(a, b) == a # NaN /\ b # NaN /\ a = b

\* v > c, v < c, v == c for an array v and a number c
VecGt(v, c) == [i \in DOMAIN v |-> Gt(v[i], c)]
VecLt(v, c) == [i \in DOMAIN v |-> Lt(v[i], c)]
VecEq(v, c) == [i \in DOMAIN v |-> Eq(v[i], c)]

\* a & b for two boolean arrays
VecAnd(a, b) == [i \in DOMAIN a |-> a[i] /\ b[i]]

\* a | b for two boolean arrays
VecOr(a, b) == [i \in DOMAIN a |-> a[i] \/ b[i]]

\* `|=` written for the first `&=`
RegionMask_or(px, py, xr, yr) ==
    LET i0 == VecGt(px, xr[1])
        i1 == VecOr(i0, VecLt(px, xr[2]))
        i2 == VecAnd(i1, VecGt(py, yr[1]))
    IN  VecAnd(i2, VecLt(py, yr[2]))

\* ind = x > XR[0]; ind &= x < XR[1]; ind &= y > YR[0]; ind &= y < YR[1]
RegionMask(px, py, xr, yr) ==
    LET i0 == VecGt(px, xr[1])
        i1 == VecAnd(i0, VecLt(px, xr[2]))
        i2 == VecAnd(i1, VecGt(py, yr[1]))
    IN  VecAnd(i2, VecLt(py, yr[2]))

\* `|` written for `&`
GoodMask_or(index, q) == VecOr(index, VecEq(q, 0))

\* good = D6['index'] & (D6['atl06_quality_summary']==0)
GoodMask(index, q) == VecAnd(index, VecEq(q, 0))

InitMask ==
    /\ mode = "mask"
    /\ XR \in Coords \X Coords
    /\ YR \in Coords \X Coords
    /\ \E n \in 0..MaxPts :
          /\ x \in [1..n -> CoordVals]
          /\ y \in [1..n -> CoordVals]
          /\ quality \in [1..n -> {0, 1}]
          /\ h \in [1..n -> {0, NaN}]
    /\ ind = Unset /\ good = Unset
    /\ IdleParse /\ IdleLoop /\ IdleFilter /\ IdleFill /\ IdleLoad

\* the samples outside the region blanked in x itself
SelectRegion_inplace ==
    /\ mode = "mask" /\ ind = Unset
    /\ ind' = Got(RegionMask(x, y, XR, YR))
    /\ x' = [i \in DOMAIN x |-> IF RegionMask(x, y, XR, YR)[i] THEN x[i] ELSE NaN]
    /\ UNCHANGED <<mode, XR, YR, y, quality, good, h,
                   parseVars, loopVars, filterVars, fillVars, loadVars>>

\* the four statements that compute ind (D6['index'])
SelectRegion ==
    /\ mode = "mask" /\ ind = Unset
    /\ ind' = Got(RegionMask(x, y, XR, YR))
    /\ UNCHANGED <<mode, XR, YR, x, y, quality, good, h,
                   parseVars, loopVars, filterVars, fillVars, loadVars>>

\* good = D6['index'] & (D6['atl06_quality_summary']==0)
SelectGood ==
    /\ mode = "mask" /\ ind # Unset /\ good = Unset
    /\ good' = Got(GoodMask(Val(ind), quality))
    /\ UNCHANGED <<mode, XR, YR, x, y, quality, ind, h,
                   parseVars, loopVars, filterVars, fillVars, loadVars>>

NextMask == SelectRegion \/ SelectGood

SpecMask == InitMask /\ [][NextMask]_vars

\* a point strictly inside the rectangle on both axes
Inside(a, b) ==
    /\ a \in Coords /\ b \in Coords
    /\ XR[1] < a /\ a < XR[2]
    /\ YR[1] < b /\ b < YR[2]

\* C7: the mask has the length of x, and mask[i] is true exactly when
\* XR[0] < x[i] < XR[1] and YR[0] < y[i] < YR[1]; a point with x[i] == XR[0]
\* is excluded.
C7_MaskIsStrictInside ==
    (mode = "mask" /\ ind # Unset) =>
        /\ Len(Val(ind)) = Len(x)
        /\ \A i \in DOMAIN x :
              /\ Val(ind)[i] <=> Inside(x[i], y[i])
              /\ x[i] = XR[1] => ~ Val(ind)[i]

C7_Witness ==
    /\ mode = "mask" /\ ind # Unset
    /\ XR = <<0, 2>> /\ YR = <<0, 2>>
    /\ x = <<1>> /\ y = <<1>>
    /\ Val(ind) = <<TRUE>>

\* C8: for a degenerate or inverted rectangle (XR[0] >= XR[1] or
\* YR[0] >= YR[1]) the mask is all false, for every point set.
C8_EmptyRectangleSelectsNothing ==
    (mode = "mask" /\ ind # Unset /\ (XR[1] >= XR[2] \/ YR[1] >= YR[2])) =>
        /\ Len(Val(ind)) = Len(x)
        /\ \A i \in DOMAIN x : ~ Val(ind)[i]

C8_Witness ==
    /\ mode = "mask" /\ ind # Unset
    /\ XR = <<2, 0>> /\ YR = <<0, 2>>
    /\ x = <<1>> /\ y = <<1>>
    /\ Val(ind) = <<FALSE>>

\* C9: wherever good[i] is true, index[i] is true and the quality flag of
\* sample i is zero.
C9_GoodIsSubset ==
    (mode = "mask" /\ good # Unset) =>
        /\ Len(Val(good)) = Len(x)
        /\ \A i \in DOMAIN x :
              Val(good)[i] => (Val(ind)[i] /\ quality[i] = 0)

C9_Witness ==
    /\ mode = "mask" /\ good # Unset
    /\ Val(ind) = <<TRUE>> /\ quality = <<1>>
    /\ Val(good) = <<FALSE>>

-----------------------------------------------------------------------------
(* The fill-value substitution of the loaders:                             *)
(*     temp[temp==h5f[...][field].attrs['_FillValue']]=np.NaN              *)

MaxLen   == 2
MaxApply == 2

\* the values an array entry or a fill value can have
Values == (0..2) \cup {NaN}

\* `>=` written for `==`
Substitute_atLeast(a, f) ==
    [i \in DOMAIN a |-> IF a[i] # NaN /\ f # NaN /\ a[i] >= f THEN NaN ELSE a[i]]

\* a[a == f] = np.NaN
Substitute(a, f) ==
    LET hit == VecEq(a, f)
    IN  [i \in DOMAIN a |-> IF hit[i] THEN NaN ELSE a[i]]

InitFill ==
    /\ mode = "fill"
    /\ \E n \in 0..MaxLen : orig \in [1..n -> Values]
    /\ fill \in Values
    /\ temp = orig
    /\ napplied = 0
    /\ IdleParse /\ IdleLoop /\ IdleFilter /\ IdleMask /\ IdleLoad

\* temp[temp==fill]=np.NaN
Sanitize ==
    /\ mode = "fill" /\ napplied < MaxApply
    /\ temp' = Substitute(temp, fill)
    /\ napplied' = napplied + 1
    /\ UNCHANGED <<mode, orig, fill, parseVars, loopVars, filterVars, maskVars, loadVars>>

NextFill == Sanitize

SpecFill == InitFill /\ [][NextFill]_vars

\* C10: the substitution marks exactly the positions that hold the fill
\* value as missing and leaves every other entry as it was; applied again
\* with the same fill value it changes nothing.
C10_SanitizeExactAndIdempotent ==
    [][ mode = "fill" =>
          /\ napplied' >= 1 =>
                /\ Len(temp') = Len(orig)
                /\ \A i \in DOMAIN orig :
                      temp'[i] = IF orig[i] = fill THEN NaN ELSE orig[i]
          /\ napplied >= 1 => temp' = temp
      ]_vars

C10_Witness ==
    /\ mode = "fill" /\ napplied = 2
    /\ orig = <<1, 2>> /\ fill = 1 /\ temp = <<NaN, 2>>

-----------------------------------------------------------------------------
(* The loaders: cell fa6e52b7 (ATL11, file_xyth) and cell ff6042c2 (ATL06,  *)
(* cycle_D6), and the lookups of the record to plot (lines 571 and 998).   *)

MaxFiles    == 2
MaxPipeList == 2

TmpDir == <<"/", "t", "m", "p", "/">>

PathOf(n) == TmpDir \o n

NameOfPath(f) == SubSeq(f, Len(TmpDir) + 1, Len(f))

StartsWith(s, pre) == Len(s) >= Len(pre) /\ SubSeq(s, 1, Len(pre)) = pre

EndsWith(s, suf) ==
    Len(s) >= Len(suf) /\ SubSeq(s, Len(s) - Len(suf) + 1, Len(s)) = suf

\* "ATL11" or "ATL06", the head of the glob pattern of the cell
GlobHead(c) ==
    IF c = "ATL11" THEN <<"A", "T", "L", "1", "1">> ELSE <<"A", "T", "L", "0", "6">>

\* glob.glob('/tmp/ATL11*.h5'), glob.glob('/tmp/ATL06*.h5')
Glob(d, c) ==
    { PathOf(n) : n \in { m \in d : /\ Len(m) >= Len(GlobHead(c)) + Len(Ext)
                                    /\ StartsWith(m, GlobHead(c))
                                    /\ EndsWith(m, Ext) } }

\* the characters of the paths, in the order sorted() compares them
CharOrder == <<".", "/", "0", "1", "2", "3", "4", "5", "6", "7", "8", "9",
               "A", "L", "T", "_", "h", "m", "p", "t">>

Rank(c) == CHOOSE i \in DOMAIN CharOrder : CharOrder[i] = c

RECURSIVE LexLess(_, _, _)
\* a < b for two strings that agree before position i
LexLess(a, b, i) ==
    IF i > Len(b) THEN FALSE
    ELSE IF i > Len(a) THEN TRUE
    ELSE IF a[i] = b[i] THEN LexLess(a, b, i + 1)
    ELSE Rank(a[i]) < Rank(b[i])

\* the first element of sorted(S)
FirstSorted(S) == CHOOSE f \in S : \A g \in S \ {f} : LexLess(f, g, 1)

\* the fields the ATL06 loader reads
Fields06 == <<"latitude", "longitude", "h_li", "atl06_quality_summary",
              "ground_track/x_atc">>

\* if '/' in field: field=field.split('/')[1]
FieldKey(f) == IF f = "ground_track/x_atc" THEN "x_atc" ELSE f

\* the arrays a file holds
HArrays == {<<>>, <<0, 1>>, <<1, NaN>>}

\* a file with both coordinates, a fill value of 1 and the heights 0, 1
Plain == [lat |-> TRUE, lon |-> TRUE, fill |-> Got(1), h |-> <<0, 1>>, nofill |-> {}]

\* What an ATL11 file can hold: pt2/latitude or not, pt2/longitude or not,
\* the _FillValue attribute of h_corr or none, and the array h_corr.
Contents11(m) ==
    IF m = "pipe" THEN {Plain}
    ELSE [lat : BOOLEAN, lon : BOOLEAN, fill : {Unset, Got(1)}, h : HArrays,
          nofill : {{}}]

\* What an ATL06 file can hold: the array of each field, and nofill, the
\* fields that have no _FillValue attribute.
Contents06(m) ==
    IF m = "pipe" THEN {Plain}
    ELSE [lat : {TRUE}, lon : {TRUE}, fill : {Got(1)}, h : HArrays,
          nofill : {{}, {"h_li"}, {"atl06_quality_summary"},
                    {Fields06[i] : i \in DOMAIN Fields06}}]

\* what pt2/latitude, pt2/longitude and pt2/delta_time of a file hold
LatOf(f)  == <<"latitude", f>>
LonOf(f)  == <<"longitude", f>>
TimeOf(f) == <<"delta_time", f>>

\* to_xy_crs.transform(lat, lon)
Transform(la, lo) == [x |-> <<"x", la, lo>>, y |-> <<"y", la, lo>>]

\* a dictionary with the entry k: v set
Put(m, k, v) == [q \in (DOMAIN m) \cup {k} |-> IF q = k THEN v ELSE m[q]]

\* the cycle that was put into an ATL06 catalog name
CycleOf(n) ==
    CASE n \in {G06_05_03, G06_05_04} -> <<"0", "5">>
      [] n = G06_04_03               -> <<"0", "4">>
      [] OTHER                       -> <<>>

\* the files of a product a /tmp/ can hold
LoadNames(c) == Catalog(c) \ {Readme}

InitLoad ==
    /\ mode = "load"
    /\ cell \in {"ATL11", "ATL06"}
    /\ disk \in {d \in SUBSET LoadNames(cell) : Cardinality(d) <= MaxFiles}
    /\ avail = <<>> /\ idx = 0 /\ pc = "idle" /\ issued = <<>> /\ skipped = {}
    /\ run = 0 /\ runOk = TRUE /\ prevOk = TRUE
    /\ diskAtRun = disk /\ disk0 = disk
    /\ IdleParse /\ IdleFilter /\ IdleMask /\ IdleFill /\ IdleLoad

InitPipe ==
    /\ mode = "pipe"
    /\ cell \in {"ATL11", "ATL06"}
    /\ avail \in SeqsUpTo(Catalog(cell), MaxPipeList)
    /\ disk \in SUBSET Catalog(cell)
    /\ idx = 1 /\ pc = "loop" /\ issued = <<>> /\ skipped = {}
    /\ run = 1 /\ runOk = TRUE /\ prevOk = TRUE
    /\ diskAtRun = disk /\ disk0 = disk
    /\ IdleParse /\ IdleFilter /\ IdleMask /\ IdleFill /\ IdleLoad

\* file_xyth={} / cycle_D6={} and the glob of the for statement
StartLoader ==
    /\ lpc = "idle"
    /\ mode = "load" \/ (mode = "pipe" /\ pc = "done")
    /\ table' = <<>>
    /\ pending' = Glob(disk, cell)
    /\ lpc' = "load"
    /\ UNCHANGED <<mode, lat, lon, order, seen, look,
                   parseVars, loopVars, filterVars, maskVars, fillVars>>

\* one pass of the body of `for file in glob.glob('/tmp/ATL11*.h5'):`
\* glob returns the paths in no particular order.
Load11 ==
    /\ mode \in {"load", "pipe"} /\ cell = "ATL11" /\ lpc = "load"
    /\ \E file \in pending : \E c \in Contents11(mode) :
          LET \* try: lat=...; lon=...  except Exception: pass
              lat1 == IF c.lat THEN Got(LatOf(file)) ELSE lat
              lon1 == IF c.lat /\ c.lon THEN Got(LonOf(file)) ELSE lon
              xy   == Transform(Val(lat1), Val(lon1))
              rec  == [x |-> xy.x, y |-> xy.y, h |-> c.h, t |-> TimeOf(file)]
          IN  /\ pending' = pending \ {file}
              /\ order' = Append(order, file)
              /\ seen' = Put(seen, file, c)
              /\ lat' = lat1 /\ lon' = lon1
              /\ IF lat1 = Unset \/ lon1 = Unset
                 THEN \* x,y = to_xy_crs.transform(lat, lon): name not defined
                      lpc' = "NameError" /\ table' = table
                 ELSE IF c.fill = Unset
                 THEN \* ...attrs['_FillValue'] after the record was stored
                      lpc' = "KeyError" /\ table' = Put(table, file, rec)
                 ELSE /\ lpc' = lpc
                      /\ table' = Put(table, file,
                                      [rec EXCEPT !.h = Substitute(c.h, Val(c.fill))])
    /\ UNCHANGED <<mode, look, parseVars, loopVars, filterVars, maskVars, fillVars>>

\* the field stored as read
LoadedField_raw(c, f) == c.h

\* temp of one field of the ATL06 loader, as stored in this_D
LoadedField(c, f) ==
    IF f \in c.nofill THEN c.h ELSE Substitute(c.h, Val(c.fill))

\* this_D after the loop over the fields and the transform
ThisD(c) ==
    LET D  == [k \in {FieldKey(Fields06[i]) : i \in DOMAIN Fields06} |->
                  LoadedField(c, CHOOSE f \in {Fields06[i] : i \in DOMAIN Fields06} :
                                     FieldKey(f) = k)]
        xy == Transform(D["latitude"], D["longitude"])
    IN  Put(Put(D, "x", xy.x), "y", xy.y)

\* one pass of the body of `for file in sorted(glob.glob('/tmp/ATL06*.h5')):`
Load06 ==
    /\ mode \in {"load", "pipe"} /\ cell = "ATL06" /\ lpc = "load"
    /\ pending # {}
    /\ LET file == FirstSorted(pending)
           key  == Group(Search(ATL06_re, file), 2)
       IN  \E c \in Contents06(mode) :
             /\ pending' = pending \ {file}
             /\ order' = Append(order, file)
             /\ seen' = Put(seen, file, c)
             /\ IF key = AttributeError
                THEN lpc' = "AttributeError" /\ table' = table
                ELSE lpc' = lpc /\ table' = Put(table, key, ThisD(c))
    /\ UNCHANGED <<mode, lat, lon, look,
                   parseVars, loopVars, filterVars, maskVars, fillVars>>

\* the for loop has no file left
LoaderEnd ==
    /\ mode \in {"load", "pipe"} /\ lpc = "load" /\ pending = {}
    /\ lpc' = "done"
    /\ UNCHANGED <<mode, pending, lat, lon, table, order, seen, look,
                   parseVars, loopVars, filterVars, maskVars, fillVars>>

\* the key the notebook looks up:
\* file_xyth['/tmp/ATL11_054803_0311_004_01.h5'], cycle_D6['04']
PlotKey(c) == IF c = "ATL11" THEN PathOf(Example11) ELSE <<"0", "4">>

\* xyth=file_xyth[...] (line 571), D6=cycle_D6['04'] (line 998)
Lookup ==
    /\ mode \in {"load", "pipe"} /\ lpc = "done" /\ look = "none"
    /\ look' = IF PlotKey(cell) \in DOMAIN table THEN "ok" ELSE "KeyError"
    /\ UNCHANGED <<mode, pending, lpc, lat, lon, table, order, seen,
                   parseVars, loopVars, filterVars, maskVars, fillVars>>

NextLoad == StartLoader \/ Load11 \/ Load06 \/ LoaderEnd \/ Lookup

SpecLoad == InitLoad /\ [][NextLoad]_vars

NextPipe ==
    \/ ATL11_Iteration \/ ATL06_Iteration \/ LoopEnd
    \/ StartLoader \/ Load11 \/ Load06 \/ LoaderEnd \/ Lookup

SpecPipe == InitPipe /\ [][NextPipe]_vars

\* the file a stored entry was loaded from: the key itself in file_xyth, the
\* last file read so far whose cycle is the key in cycle_D6
SourceOf(k) ==
    IF cell = "ATL11" THEN k
    ELSE order[CHOOSE i \in DOMAIN order :
                  /\ CycleOf(NameOfPath(order[i])) = k
                  /\ \A j \in DOMAIN order :
                        CycleOf(NameOfPath(order[j])) = k => j <= i]

\* the heights of a stored record: 'h' in file_xyth, 'h_li' in cycle_D6
HeightsOf(r) == IF cell = "ATL11" THEN r.h ELSE r["h_li"]

\* the fill sentinel of the heights of a file, if the file has one
SentinelOf(c) ==
    IF cell = "ATL11" THEN c.fill
    ELSE IF "h_li" \in c.nofill THEN Unset ELSE c.fill

\* C11: in every state in which no loader iteration is under way (all the
\* states of the model: an iteration is one step), every record of file_xyth
\* or cycle_D6 whose file has a fill sentinel for its heights holds a height
\* array with no entry equal to that sentinel.
C11_NoSentinelInStoredHeights ==
    mode = "load" =>
        \A k \in DOMAIN table :
            LET c == seen[SourceOf(k)]
            IN  SentinelOf(c) # Unset =>
                    \A i \in DOMAIN HeightsOf(table[k]) :
                        ~Eq(HeightsOf(table[k])[i], Val(SentinelOf(c)))

C11_Witness ==
    /\ mode = "load" /\ cell = "ATL06" /\ lpc = "done" /\ look = "ok"
    /\ seen[PathOf(G06_04_03)].h = <<0, 1>>
    /\ seen[PathOf(G06_04_03)].nofill = {}
    /\ table[<<"0", "4">>]["h_li"] = <<0, NaN>>

\* C12: a file whose heights have no _FillValue attribute never stops a
\* loader with an error, and the record stored for it holds the heights as
\* they were read.
C12_MissingFillValueIsTolerated ==
    mode = "load" =>
        /\ lpc # "KeyError"
        /\ \A k \in DOMAIN table :
              LET c == seen[SourceOf(k)]
              IN  SentinelOf(c) = Unset => HeightsOf(table[k]) = c.h

\* C13: the mappings only grow: a loader step removes no key and changes no
\* entry that was there, and once the loader has finished there are as many
\* entries as files loaded.
C13_AppendOnly ==
    [][ mode = "load" /\ lpc = "load" =>
          /\ \A k \in DOMAIN table : k \in DOMAIN table' /\ table'[k] = table[k]
          /\ lpc' = "done" => Cardinality(DOMAIN table') = Len(order')
      ]_vars

\* C14: when the download loop ends with nothing downloaded and the loader
\* ends with an empty mapping, the lookup of the record to plot does not raise.
C14_EmptyResultIsNoError ==
    mode = "pipe" /\ pc = "done" /\ issued = <<>> /\ lpc = "done" /\ table = <<>>
        => look # "KeyError"

\* the ATL06 names of the catalog, all of the form
\* ATL06_<timestamp>_ttttccrr_RRR_VV.h5
Names06 == {G06_05_03, G06_04_03, G06_05_04}

\* what ATL06_re captures in the names of the full form, bare or after /tmp/
GroupsOfFullNames ==
    \A f \in Full06 : \A n \in {f.name, PathOf(f.name)} :
        /\ Search(ATL06_re, n).ok
        /\ Group(Search(ATL06_re, n), 1) = f.exp06[1]
        /\ Group(Search(ATL06_re, n), 2) = f.exp06[2]
        /\ Group(Search(ATL06_re, n), 3) = f.exp06[3]

\* C16: for an ATL06 name of the full form, bare or as a path under /tmp/,
\* ATL06_re captures the track, the cycle and the region that are in the
\* name; a pass of the ATL06 download loop over such a name goes beyond the
\* region test (to the isfile test, and to the download if the file is
\* missing) exactly when the region is 03; and the keys of cycle_D6 are the
\* cycles of the files loaded.
C16_GroupsFilterAndKey ==
    [][ mode = "pipe" /\ cell = "ATL06" =>
          /\ GroupsOfFullNames
          /\ (pc = "loop" /\ idx <= Len(avail) /\ avail[idx] \in Names06) =>
                ((idx \in skipped' \/ issued' # issued)
                    <=> RegionOf(avail[idx]) = "03")
          /\ DOMAIN table' = {CycleOf(NameOfPath(order'[i])) : i \in DOMAIN order'}
      ]_vars

C16_Witness ==
    /\ mode = "pipe" /\ cell = "ATL06" /\ lpc = "done"
    /\ avail = <<G06_05_04, G06_05_03>> /\ disk0 = {G06_04_03}
    /\ issued = <<G06_05_03>> /\ skipped = {}
    /\ order = <<PathOf(G06_04_03), PathOf(G06_05_03)>>
    /\ DOMAIN table = {<<"0", "4">>, <<"0", "5">>}

\* whether a file lacks pt2/latitude or pt2/longitude
LacksPosition(c) == ~c.lat \/ ~c.lon

\* C17: an ATL11 file without pt2/latitude or pt2/longitude never stops the
\* loader with an error, wherever it comes in the glob order, and the record
\* stored for it has no 'x' and no 'y'.
C17_MissingPositionIsPassedOver ==
    mode = "load" /\ cell = "ATL11" =>
        \A i \in DOMAIN order :
            LacksPosition(seen[order[i]]) =>
                /\ lpc # "NameError"
                /\ order[i] \in DOMAIN table =>
                      {"x", "y"} \cap DOMAIN table[order[i]] = {}

\* C18: the x and y of every entry of file_xyth are the transform of the
\* latitude and the longitude of the file the entry is keyed by.
C18_PositionsAreTheFilesOwn ==
    mode = "load" /\ cell = "ATL11" =>
        \A f \in DOMAIN table :
            /\ table[f].x = Transform(LatOf(f), LonOf(f)).x
            /\ table[f].y = Transform(LatOf(f), LonOf(f)).y

\* C19: every file a loader reads is a granule of the catalog answer whose
\* subregion is 03, whatever /tmp/ held before the download loop ran.
C19_LoadedWereAccepted ==
    mode = "pipe" =>
        \A i \in DOMAIN order :
            /\ \E k \in DOMAIN avail : avail[k] = NameOfPath(order[i])
            /\ RegionOf(NameOfPath(order[i])) = "03"

====
